---- MODULE Spec2Model ----
(***************************************************************************)
(* FourQubitDetectorConstruction: the device-geometry assembler.           *)
(*                                                                         *)
(* The model follows Construct() / DefineMaterials() / SetupGeometry() /   *)
(* AttachPhononSensor() of src/src/FourQubitDetectorConstruction.cc.       *)
(* The process-wide sinks the assembler writes to (physical-volume store,  *)
(* border-surface table, lattice manager, SD manager) and the assembly     *)
(* classes whose sources are not part of src/ are modelled from the        *)
(* interfaces of spec.md sections 3, 4.2 and 6.                            *)
(***************************************************************************)
EXTENDS Integers, Sequences, FiniteSets, TLC

VARIABLES
  live,                       \* the detector-construction objects that exist
  blueprint,                  \* which leaf catalogs the assembly classes produce
  fGeometryHasBeenDestroyed,  \* G4RunManager's flag
  fConstructed,               \* per object
  fMaterials,                 \* per object: fLiquidHelium ... fNiobium
  fWorldPhys,                 \* per object: the root volume, or NullVolume
  fSurfaceProps,              \* per object that exists: fSiNbInterface, fSiCopperInterface, fSiVacuumInterface
  fSuperconductorSensitivity, \* per object: 0 (null) or the id of its sensitivity
  surfacePropertyHeap,        \* the G4CMPSurfaceProperty objects ever created
  sensitivityCount,           \* the FourQubitSensitivity objects ever created
  sdManager,                  \* G4SDManager: the detectors added
  sensitiveVolume,            \* the logical volume the sensitivity was last set on
  physStore,                  \* G4PhysicalVolumeStore, in creation order
  latticeTable,               \* G4LatticeManager: lattices loaded and registered
  surfaceTable,               \* G4CMPLogicalBorderSurface table, in creation order
  assemblies,                 \* the sub-assembly objects of the running generation
  clock,                      \* creation stamp within the running generation
  generation,                 \* number of Construct() calls started so far
  pc,                         \* position inside Construct()/SetupGeometry()
  self,                       \* the object whose Construct() is running / ran last
  config,                     \* the DeviceConfig of the running / last Construct()
  phys_siliconChip,           \* SetupGeometry local: the substrate placement
  err,                        \* the fatal error that ended the build, or NoError
  returned,                   \* what the last completed Construct() returned
  last,                       \* result of the last completed Construct()
  prev,                       \* result of the one before, while idle
  lastAttach,                 \* the last AttachPhononSensor call: argument, effect
  nist,                       \* G4NistManager: the materials it can find or build
  dp_resonatorCurveCentralRadius, \* design parameter of the device headers
  anchorq1,                   \* SetupGeometry local: the values the chain anchor took
  dp                          \* the device parameters the resonator assemblies are laid out with

vars == << live, blueprint, fGeometryHasBeenDestroyed, fConstructed,
           fMaterials, fWorldPhys,
           fSurfaceProps, fSuperconductorSensitivity, surfacePropertyHeap,
           sensitivityCount, sdManager, sensitiveVolume, physStore, latticeTable,
           surfaceTable, assemblies, clock, generation, pc, self, config,
           phys_siliconChip, err, returned, last, prev, lastAttach,
           nist, dp_resonatorCurveCentralRadius, anchorq1, dp >>

(***************************************************************************)
(* Bounds of the model.                                                    *)
(***************************************************************************)
\* Construct() calls explored in one behaviour.
MaxBuilds == 2

\* AttachPhononSensor() calls made from outside SetupGeometry in one behaviour.
MaxAttach == 2

(***************************************************************************)
(* DeviceConfig: the five dp_use... toggles.                               *)
(***************************************************************************)
Flags == { "useQubitHousing", "useGroundPlane", "useTransmissionLine",
           "useResonatorAssembly", "useFluxLines" }

DeviceConfig == [Flags -> BOOLEAN]

Instances == { "A", "B" }

NullVolume == [name |-> "", mother |-> "", gen |-> 0, stamp |-> 0]

NoError == [kind |-> "none", name |-> "", v2 |-> NullVolume]

NoResult == [valid |-> FALSE]

(***************************************************************************)
(* std::string::find(sub) != npos                                          *)
(***************************************************************************)
\* CLHEP units of length, in tenths of a micrometre
um == 10

mm == 1000 * um

\* G4ThreeVector(x, y, 0) and the sum of two of them
G4ThreeVector(x, y) == [x |-> x, y |-> y]

Plus(a, b) == [x |-> a.x + b.x, y |-> a.y + b.y]

\* an assembly whose placement the model does not follow
NotTracked == [tracked |-> FALSE]

\* a vector whose components are counted in halves of the length unit (a
\* twentieth of a micrometre): 0.5 * d is then the whole number d for every
\* length d, and a whole length d is 2 * d
InHalves(x2, y2) == [x |-> x2, y |-> y2, halves |-> TRUE]

\* rot->rotateZ(deg), translate: the placement of an assembly; x and y are
\* the translation times `scale'
Placement(deg, translate) ==
  [tracked |-> TRUE, rotateZ |-> deg, x |-> translate.x, y |-> translate.y,
   scale |-> IF "halves" \in DOMAIN translate THEN 2 ELSE 1]

Contains(s, sub) ==
  \E i \in 1..(Len(s) - Len(sub) + 1) : SubSeq(s, i, i + Len(sub) - 1) = sub

(***************************************************************************)
(* The leaf catalogs of the assembly classes (FourQubitTransmissionLine,   *)
(* FourQubitResonatorAssembly, FourQubitCurveFluxLine, FourQubitTransmon,  *)
(* FourQubitXmon, FourQubitResonator, FourQubitCurve, FourQubitStraight).  *)
(* Their sources are not in src/: a catalog is an ordered list of          *)
(* (material, name, volume) triples (spec.md section 3), the leaf names    *)
(* made from the name the assembly is constructed with.  The blueprint is  *)
(* an input of the model.                                                  *)
(*   "legacy"    every assembly has a vacuum leaf and a niobium leaf       *)
(*   "aluminum"  the qubit elements are aluminium only, the transmission   *)
(*               line carries an aluminium bond                            *)
(*   "gap"       as "aluminum", but the transmission line has a leaf whose *)
(*               material name is "NiobiumVacuumGap" (spec.md section 4.3) *)
(* A fourth blueprint, "malformed", is a recipe no assembly can be made     *)
(* from: the constructor of an assembly class reports a validation error   *)
(* (spec.md section 7) and makes no placement.                             *)
(***************************************************************************)
Blueprints == { "legacy", "aluminum", "gap" }

Malformed(bp) == bp = "malformed"

\* the validation error of the assembly class that was asked for pName
ValidationError(pName) ==
  [kind |-> "ValidationError", name |-> pName, v2 |-> NullVolume]

VacuumLeaf == [material |-> "Vacuum", suffix |-> "_Empty"]

NiobiumLeaf == [material |-> "Niobium", suffix |-> "_Conductor"]

AluminumLeaf(sfx) == [material |-> "Aluminum", suffix |-> sfx]

GapLeaf == [material |-> "NiobiumVacuumGap", suffix |-> "_Gap"]

QubitTypes == { "Transmon", "Xmon", "Resonator" }

Blueprint(bp, type) ==
  CASE type = "QubitHousing" -> << >>
    [] bp # "legacy" /\ type \in QubitTypes -> << AluminumLeaf("_Junction") >>
    [] bp = "aluminum" /\ type = "TransmissionLine" ->
         << VacuumLeaf, NiobiumLeaf, AluminumLeaf("_Bond") >>
    [] bp = "gap" /\ type = "TransmissionLine" ->
         << VacuumLeaf, GapLeaf, NiobiumLeaf >>
    [] OTHER -> << VacuumLeaf, NiobiumLeaf >>

(***************************************************************************)
(* The sinks, as operations on the machine record                          *)
(*   m = [store, table, asm, clock, err].                                  *)
(* Nothing executes after a fatal error.                                   *)
(***************************************************************************)
\* new G4PVPlacement(rot, translate, logical, name, motherLogical, ...)
G4PVPlacement(m, name, mother, g) ==
  IF m.err # NoError THEN m
  ELSE [m EXCEPT !.store = Append(@, [name |-> name, mother |-> mother,
                                      gen |-> g, stamp |-> m.clock + 1]),
                 !.clock = @ + 1]

LastPlaced(m) == m.store[Len(m.store)]

\* new G4CMPLogicalBorderSurface(name, vol1, vol2, surfaceProperty);
\* a name already in the table is a fatal error of the sink (spec.md 6, 7).
G4CMPLogicalBorderSurface(m, name, vol1, vol2, prop) ==
  IF m.err # NoError THEN m
  ELSE IF \E k \in DOMAIN m.table : m.table[k].name = name
       THEN [m EXCEPT !.err = [kind |-> "DuplicateInterfaceName",
                               name |-> name, v2 |-> vol2]]
       ELSE [m EXCEPT !.table = Append(@, [name |-> name, v1 |-> vol1,
                                           v2 |-> vol2, prop |-> prop,
                                           stamp |-> m.clock + 1]),
                      !.clock = @ + 1]

\* the constructor of an assembly class: the assembly's own placement and
\* one placement per leaf of its blueprint, listed in its catalog
RECURSIVE PlaceLeaves(_, _, _, _, _)
PlaceLeaves(m, pName, leaves, k, g) ==
  IF k > Len(leaves) THEN m
  ELSE PlaceLeaves(G4PVPlacement(m, pName \o leaves[k].suffix, pName, g),
                   pName, leaves, k + 1, g)

NewAssemblyAt(m, bp, type, pName, mother, g, at) ==
  IF m.err # NoError THEN m
  ELSE IF Malformed(bp) THEN [m EXCEPT !.err = ValidationError(pName)]
  ELSE
    LET leaves == Blueprint(bp, type)
        m1 == G4PVPlacement(m, pName, mother, g)
        m2 == PlaceLeaves(m1, pName, leaves, 1, g)
        list == [k \in 1..Len(leaves) |->
                   [material |-> leaves[k].material,
                    name |-> pName \o leaves[k].suffix,
                    vol |-> m2.store[Len(m1.store) + k]]]
    IN [m2 EXCEPT !.asm = Append(@, [type |-> type, name |-> pName,
                                     phys |-> LastPlaced(m1),
                                     list |-> list, wired |-> FALSE,
                                     at |-> at])]

NewAssembly(m, bp, type, pName, mother, g) ==
  NewAssemblyAt(m, bp, type, pName, mother, g, NotTracked)

\* Get...ListOfAllFundamentalSubVolumes() of the assembly built last
LastAssembly(m) == Len(m.asm)

(***************************************************************************)
(* The body of every leaf loop of SetupGeometry: two independent           *)
(* substring tests on the leaf's material, each defining a border surface  *)
(* between the chip and the leaf under the same name.                      *)
(***************************************************************************)
\* a leaf loop with the two surface properties exchanged
LeafBorders_Exchanged(m, leaf, chip, props) ==
  LET tempName == "border_siliconChip_" \o leaf.name
      m1 == IF Contains(leaf.material, "Vacuum")
            THEN G4CMPLogicalBorderSurface(m, tempName, chip, leaf.vol,
                                           props.fSiNbInterface)
            ELSE m
  IN IF Contains(leaf.material, "Niobium")
     THEN G4CMPLogicalBorderSurface(m1, tempName, chip, leaf.vol,
                                    props.fSiVacuumInterface)
     ELSE m1

LeafBorders(m, leaf, chip, props) ==
  LET tempName == "border_siliconChip_" \o leaf.name
      m1 == IF Contains(leaf.material, "Vacuum")
            THEN G4CMPLogicalBorderSurface(m, tempName, chip, leaf.vol,
                                           props.fSiVacuumInterface)
            ELSE m
  IN IF Contains(leaf.material, "Niobium")
     THEN G4CMPLogicalBorderSurface(m1, tempName, chip, leaf.vol,
                                    props.fSiNbInterface)
     ELSE m1

RECURSIVE LeafLoop(_, _, _, _, _)
LeafLoop(m, list, iSubVol, chip, props) ==
  IF iSubVol > Len(list) THEN m
  ELSE LeafLoop(LeafBorders(m, list[iSubVol], chip, props),
                list, iSubVol + 1, chip, props)

\* the leaf loop over the catalog of assembly number a
WireLeaves(m, a, chip, props) ==
  IF m.err # NoError THEN m
  ELSE LeafLoop([m EXCEPT !.asm[a].wired = TRUE], m.asm[a].list, 1, chip, props)

\* an assembly that is constructed and wired at once
BuildAndWire(m, bp, type, pName, mother, g, chip, props) ==
  LET m1 == NewAssembly(m, bp, type, pName, mother, g)
  IN WireLeaves(m1, LastAssembly(m1), chip, props)

\* the same, with the placement of the assembly followed
BuildAndWireAt(m, bp, type, pName, mother, g, chip, props, at) ==
  LET m1 == NewAssemblyAt(m, bp, type, pName, mother, g, at)
  IN WireLeaves(m1, LastAssembly(m1), chip, props)

(***************************************************************************)
(* The machine record of the running build, and its write-back.            *)
(***************************************************************************)
Machine == [store |-> physStore, table |-> surfaceTable, asm |-> assemblies,
            clock |-> clock, err |-> NoError]

Commit(m, next) ==
  /\ physStore' = m.store
  /\ surfaceTable' = m.table
  /\ assemblies' = m.asm
  /\ clock' = m.clock
  /\ err' = m.err
  /\ pc' = IF m.err = NoError THEN next ELSE "aborted"

Props == fSurfaceProps[self]

(***************************************************************************)
(* The result of a completed build, without the identities of the objects: *)
(* the volume tree under the returned root and the border-surface table.   *)
(***************************************************************************)
VolumeTree(store, g) ==
  LET mine == SelectSeq(store, LAMBDA v : v.gen = g)
  IN [k \in 1..Len(mine) |-> << mine[k].name, mine[k].mother >>]

InterfaceList(table, heap) ==
  [k \in 1..Len(table) |->
     [name |-> table[k].name, a |-> table[k].v1.name, b |-> table[k].v2.name,
      prop |-> heap[table[k].prop].name]]

BuildResult ==
  [valid |-> TRUE, inst |-> self, cfg |-> config,
   tree |-> VolumeTree(physStore, generation),
   ifaces |-> InterfaceList(surfaceTable, surfacePropertyHeap)]

(***************************************************************************)
(* FourQubitDetectorConstruction::FourQubitDetectorConstruction()          *)
(***************************************************************************)
\* The initialiser list leaves fSiNbInterface, fSiCopperInterface and
\* fSiVacuumInterface out: each of them holds whatever the storage of the
\* object held, the null pointer (0) or an address at which no surface
\* property lives.
NullPointer == 0

WildPointer == 0 - 1

IndeterminatePointers == { NullPointer, WildPointer }

UninitialisedProps ==
  [fSiNbInterface : IndeterminatePointers,
   fSiCopperInterface : IndeterminatePointers,
   fSiVacuumInterface : IndeterminatePointers]

\* the initialiser list zeroes four of the six material pointers
NoMaterials == [fLiquidHelium |-> "null", fGermanium |-> "null",
                fSilicon |-> "indeterminate", fAluminum |-> "null",
                fTungsten |-> "null", fNiobium |-> "indeterminate"]

NoLattices == [logical |-> {}, physical |-> {}]

\* the materials of the NIST database that the device asks for
NistMaterials == { "G4_AIR", "G4_Ge", "G4_Si", "G4_Al", "G4_W", "G4_Nb" }

\* the materials DefineMaterials looks up and SetupGeometry never uses
UnusedMaterials == { "G4_Ge", "G4_Al", "G4_W" }

\* a material database that holds all six, or lacks one of the unused three
MaterialDatabases ==
  { NistMaterials } \cup { NistMaterials \ { x } : x \in UnusedMaterials }

NoAttach == [valid |-> FALSE, calls |-> 0]

\* the values tried for dp_resonatorCurveCentralRadius, which the device
\* headers fix: the radius the curves are built with, and a larger one
CurveCentralRadii == { 45 * um, 50 * um }

\* The device parameters of lines 318-326, which the device headers fix:
\* dp_resonatorLateralSpacing, dp_centralResonatorOffsetX,
\* dp_resonatorAssemblyBaseNbDimY and dp_transmissionLineCavityFullWidth.
DeviceParameters(spacing, offsetX, baseNbDimY, cavityFullWidth) ==
  [dp_resonatorLateralSpacing |-> spacing,
   dp_centralResonatorOffsetX |-> offsetX,
   dp_resonatorAssemblyBaseNbDimY |-> baseNbDimY,
   dp_transmissionLineCavityFullWidth |-> cavityFullWidth]

\* the layout the other specifications build with
NominalParameters == DeviceParameters(1300 * um, 200 * um, 1000 * um, 40 * um)

\* the layouts tried: the central assembly off the axis, on the axis, and to
\* the left of it, the last with lengths that are an odd number of units
ParameterSets ==
  { NominalParameters,
    DeviceParameters(1000 * um, 0, 800 * um, 20 * um),
    DeviceParameters(900 * um, -150 * um, 600 * um + 1, 60 * um + 1) }

\* the state once the objects of `objects' have been constructed, the
\* assembly classes holding one of `blueprints'
ConstructedWith(objects, blueprints) ==
  /\ live = objects
  /\ blueprint \in blueprints
  /\ fGeometryHasBeenDestroyed = FALSE
  /\ fConstructed = [i \in Instances |-> FALSE]
  /\ fMaterials = [i \in Instances |-> NoMaterials]
  /\ fWorldPhys = [i \in Instances |-> NullVolume]
  /\ fSurfaceProps \in [objects -> UninitialisedProps]
  /\ fSuperconductorSensitivity = [i \in Instances |-> 0]
  /\ surfacePropertyHeap = << >>
  /\ sensitivityCount = 0
  /\ sdManager = {}
  /\ sensitiveVolume = [vol |-> NullVolume, sd |-> 0]
  /\ physStore = << >>
  /\ latticeTable = NoLattices
  /\ surfaceTable = << >>
  /\ assemblies = << >>
  /\ clock = 0
  /\ generation = 0
  /\ pc = "idle"
  /\ self = "A"
  /\ config = [f \in Flags |-> FALSE]
  /\ phys_siliconChip = NullVolume
  /\ err = NoError
  /\ returned = NullVolume
  /\ last = NoResult
  /\ prev = NoResult
  /\ lastAttach = NoAttach
  /\ dp_resonatorCurveCentralRadius \in CurveCentralRadii
  /\ anchorq1 = << >>

Constructed(objects) == ConstructedWith(objects, Blueprints)

Init == Constructed({ "A" }) /\ nist = NistMaterials /\ dp = NominalParameters

\* a process whose assembly classes may hold the malformed blueprint
InitMalformed ==
  /\ ConstructedWith({ "A" }, { "aluminum", "malformed" })
  /\ nist = NistMaterials /\ dp = NominalParameters

\* a process that holds two detector-construction objects
InitTwo ==
  Constructed(Instances) /\ nist = NistMaterials /\ dp = NominalParameters

\* a process whose material database may lack a material
InitMaterials ==
  Constructed({ "A" }) /\ nist \in MaterialDatabases /\ dp = NominalParameters

\* a process whose device headers hold one of the layouts
InitResonators ==
  Constructed({ "A" }) /\ nist = NistMaterials /\ dp \in ParameterSets

(***************************************************************************)
(* G4RunManager::ReinitializeGeometry(destroyFirst = true): the run        *)
(* manager empties the volume stores itself before Construct() is called   *)
(* again.                                                                  *)
(***************************************************************************)
ReinitializeGeometry ==
  /\ pc = "idle"
  /\ generation >= 1
  /\ generation < MaxBuilds
  /\ ~fGeometryHasBeenDestroyed
  /\ fGeometryHasBeenDestroyed' = TRUE
  /\ physStore' = << >>
  /\ UNCHANGED << live, dp, dp_resonatorCurveCentralRadius, anchorq1, nist, lastAttach, blueprint, fConstructed, fMaterials, fWorldPhys, fSurfaceProps,
                  fSuperconductorSensitivity, surfacePropertyHeap,
                  sensitivityCount, sdManager, sensitiveVolume, latticeTable, surfaceTable,
                  assemblies, clock, generation, pc, self, config,
                  phys_siliconChip, err, returned, last, prev >>

(***************************************************************************)
(* Construct(), lines 76-91: the teardown of a constructed object.         *)
(***************************************************************************)
\* G4PhysicalVolumeStore::Clean() (with the logical and solid stores)
CleanStores(store) == << >>

\* a teardown that leaves the lattice registrations in place
LatticeReset_Skipped(lattices) == lattices

\* a reset that forgets the loaded lattices and keeps the registrations
LatticeReset_LogicalOnly(lattices) == [lattices EXCEPT !.logical = {}]

\* G4LatticeManager::Reset()
LatticeReset(lattices) == NoLattices

\* a teardown that leaves the border surfaces in place
CleanSurfaceTable_Skipped(table) == table

\* G4CMPLogicalBorderSurface::CleanSurfaceTable()
CleanSurfaceTable(table) == << >>

\* a teardown that does not look at fConstructed
Teardown_Always(i) ==
  /\ physStore' = IF ~fGeometryHasBeenDestroyed
                  THEN CleanStores(physStore) ELSE physStore
  /\ latticeTable' = LatticeReset(latticeTable)
  /\ surfaceTable' = CleanSurfaceTable(surfaceTable)

Teardown(i) ==
  IF fConstructed[i]
  THEN /\ physStore' = IF ~fGeometryHasBeenDestroyed
                       THEN CleanStores(physStore) ELSE physStore
       /\ latticeTable' = LatticeReset(latticeTable)
       /\ surfaceTable' = CleanSurfaceTable(surfaceTable)
  ELSE UNCHANGED << physStore, latticeTable, surfaceTable >>

Construct(i, cfg) ==
  /\ pc = "idle"
  /\ generation < MaxBuilds
  /\ Teardown(i)
  /\ self' = i
  /\ config' = cfg
  /\ generation' = generation + 1
  /\ clock' = 0
  /\ assemblies' = << >>
  /\ phys_siliconChip' = NullVolume
  /\ prev' = NoResult
  /\ anchorq1' = << >>
  /\ pc' = "DefineMaterials"
  /\ UNCHANGED << live, dp, dp_resonatorCurveCentralRadius, nist, lastAttach, blueprint, fGeometryHasBeenDestroyed, fConstructed, fMaterials,
                  fWorldPhys, fSurfaceProps, fSuperconductorSensitivity,
                  surfacePropertyHeap, sensitivityCount, sdManager, sensitiveVolume,
                  err, returned, last >>

(***************************************************************************)
(* DefineMaterials(), lines 102-112.                                       *)
(***************************************************************************)
\* G4NistManager::FindOrBuildMaterial(name): the material, or a null pointer
FindOrBuildMaterial(name) == IF name \in nist THEN name ELSE "null"

DefineMaterials ==
  /\ pc = "DefineMaterials"
  /\ fMaterials' = [fMaterials EXCEPT ![self] =
        [fLiquidHelium |-> FindOrBuildMaterial("G4_AIR"),
         fGermanium |-> FindOrBuildMaterial("G4_Ge"),
         fSilicon |-> FindOrBuildMaterial("G4_Si"),
         fAluminum |-> FindOrBuildMaterial("G4_Al"),
         fTungsten |-> FindOrBuildMaterial("G4_W"),
         fNiobium |-> FindOrBuildMaterial("G4_Nb")]]
  /\ pc' = "SurfaceProperties"
  /\ UNCHANGED << live, dp, dp_resonatorCurveCentralRadius, anchorq1, nist, lastAttach, blueprint, fGeometryHasBeenDestroyed, fConstructed,
                  fWorldPhys, fSurfaceProps, fSuperconductorSensitivity,
                  surfacePropertyHeap, sensitivityCount, sdManager, sensitiveVolume,
                  physStore, latticeTable, surfaceTable, assemblies, clock,
                  generation, self, config, phys_siliconChip, err, returned,
                  last, prev >>

(***************************************************************************)
(* AttachPhononSensor(surfProp), lines 1012-1033.                          *)
(***************************************************************************)
\* the constant properties of the niobium sensor, in the order they are added
SensorProperties ==
  << [key |-> "filmAbsorption", value |-> "0.0"],
     [key |-> "filmThickness", value |-> "90. * CLHEP::nm"],
     [key |-> "gapEnergy", value |-> "1.6e-3 * CLHEP::eV"],
     [key |-> "lowQPLimit", value |-> "3."],
     [key |-> "phononLifetime", value |-> "4.17 * CLHEP::ps"],
     [key |-> "phononLifetimeSlope", value |-> "0.29"],
     [key |-> "vSound", value |-> "3.480 * CLHEP::km / CLHEP::s"],
     [key |-> "subgapAbsorption", value |-> "0.0"] >>

\* a properties table that keeps both entries when a key is added again
AddConstProperty_Append(table, key, value) ==
  Append(table, [key |-> key, value |-> value])

\* sensorProp->AddConstProperty(key, value): one entry per key, the value of
\* the latest call
AddConstProperty(table, key, value) ==
  IF \E k \in DOMAIN table : table[k].key = key
  THEN [k \in DOMAIN table |->
          IF table[k].key = key THEN [key |-> key, value |-> value]
          ELSE table[k]]
  ELSE Append(table, [key |-> key, value |-> value])

RECURSIVE AddSensorProperties(_, _)
AddSensorProperties(table, k) ==
  IF k > Len(SensorProperties) THEN table
  ELSE AddSensorProperties(
         AddConstProperty(table, SensorProperties[k].key,
                          SensorProperties[k].value), k + 1)

\* surfProp->SetPhononElectrode(new G4CMPPhononElectrode): the property's
\* electrode binding is replaced; the field counts the electrodes bound
SetPhononElectrode(property) == [property EXCEPT !.electrode = 1]

\* a sensor attachment without the test for a null property: everything the
\* stray pointer can reach is written
AttachPhononSensor_Unguarded(heap, surfProp) ==
  [k \in DOMAIN heap |->
     IF surfProp \in { 0, k }
     THEN SetPhononElectrode(
            [heap[k] EXCEPT !.sensor = AddSensorProperties(@, 1)])
     ELSE heap[k]]

AttachPhononSensor(heap, surfProp) ==
  IF surfProp = 0 THEN heap
  ELSE [heap EXCEPT ![surfProp] =
          SetPhononElectrode([@ EXCEPT !.sensor = AddSensorProperties(@, 1)])]

(***************************************************************************)
(* SetupGeometry(), lines 132-153: the surface properties, first build     *)
(* of an object only.                                                      *)
(***************************************************************************)
G4CMPSurfaceProperty(name, owner) ==
  [name |-> name, owner |-> owner, scattering |-> TRUE, sensor |-> << >>,
   electrode |-> 0]

\* surface properties defined by every build
FirstBuild_Always(constructed) == TRUE

\* if (!fConstructed)
FirstBuild(constructed) == ~constructed

\* the sensor attached to the vacuum property
SensorTarget_Vacuum(props) == props.fSiVacuumInterface

\* AttachPhononSensor(fSiNbInterface): the property the sensor is attached to
SensorTarget(props) == props.fSiNbInterface

SurfaceProperties ==
  /\ pc = "SurfaceProperties"
  /\ IF FirstBuild(fConstructed[self])
     THEN LET n == Len(surfacePropertyHeap)
              heap == surfacePropertyHeap
                        \o << G4CMPSurfaceProperty("SiNbInterface", self),
                              G4CMPSurfaceProperty("SiCopperInterface", self),
                              G4CMPSurfaceProperty("SiVacuumInterface", self) >>
              props == [fSiNbInterface |-> n + 1, fSiCopperInterface |-> n + 2,
                        fSiVacuumInterface |-> n + 3]
          IN /\ fSurfaceProps' = [fSurfaceProps EXCEPT ![self] = props]
             /\ surfacePropertyHeap' = AttachPhononSensor(heap, SensorTarget(props))
             /\ lastAttach' = [valid |-> TRUE, calls |-> lastAttach.calls,
                               prop |-> SensorTarget(props), before |-> heap,
                               after |-> AttachPhononSensor(heap, SensorTarget(props))]
     ELSE UNCHANGED << fSurfaceProps, surfacePropertyHeap, lastAttach >>
  /\ pc' = "World"
  /\ UNCHANGED << live, dp, dp_resonatorCurveCentralRadius, anchorq1, nist, blueprint, fGeometryHasBeenDestroyed, fConstructed, fMaterials,
                  fWorldPhys, fSuperconductorSensitivity, sensitivityCount, sdManager,
                  sensitiveVolume, physStore, latticeTable, surfaceTable,
                  assemblies, clock, generation, self, config,
                  phys_siliconChip, err, returned, last, prev >>

(***************************************************************************)
(* SetupGeometry(), lines 161-171: the world volume.                       *)
(***************************************************************************)
World ==
  /\ pc = "World"
  /\ LET m == G4PVPlacement(Machine, "World", "", generation)
     IN /\ fWorldPhys' = [fWorldPhys EXCEPT ![self] = LastPlaced(m)]
        /\ Commit(m, "SiliconChip")
  /\ UNCHANGED << live, dp, dp_resonatorCurveCentralRadius, anchorq1, nist, lastAttach, blueprint, fGeometryHasBeenDestroyed, fConstructed, fMaterials,
                  fSurfaceProps, fSuperconductorSensitivity,
                  surfacePropertyHeap, sensitivityCount, sdManager, sensitiveVolume,
                  latticeTable, generation, self, config, phys_siliconChip,
                  returned, last, prev >>

(***************************************************************************)
(* SetupGeometry(), lines 178-211: the chip substrate and its lattice.     *)
(***************************************************************************)
\* LM->LoadLattice(fSilicon, "Si")
LoadLattice(lattices, material, name) ==
  [lattices EXCEPT !.logical = @ \cup { [material |-> material, lattice |-> name] }]

\* LM->RegisterLattice(phys_siliconChip, phys_siliconLattice), Miller (1,0,0)
RegisterLattice(lattices, vol) ==
  [lattices EXCEPT !.physical =
     @ \cup { [vol |-> vol, lattice |-> "Si", miller |-> << 1, 0, 0 >>] }]

SiliconChip ==
  /\ pc = "SiliconChip"
  /\ LET m == G4PVPlacement(Machine, "SiliconChip", "World", generation)
     IN /\ phys_siliconChip' = LastPlaced(m)
        /\ latticeTable' =
             RegisterLattice(LoadLattice(latticeTable, fMaterials[self].fSilicon, "Si"),
                             LastPlaced(m))
        /\ Commit(m, "BorderWorld")
  /\ UNCHANGED << live, dp, dp_resonatorCurveCentralRadius, anchorq1, nist, lastAttach, blueprint, fGeometryHasBeenDestroyed, fConstructed, fMaterials,
                  fWorldPhys, fSurfaceProps, fSuperconductorSensitivity,
                  surfacePropertyHeap, sensitivityCount, sdManager, sensitiveVolume,
                  generation, self, config, returned, last, prev >>

\* what a step that only places volumes and defines border surfaces leaves alone
ChainFrame ==
  UNCHANGED << live, dp, dp_resonatorCurveCentralRadius, nist, lastAttach, blueprint, fGeometryHasBeenDestroyed, fConstructed, fMaterials,
               fWorldPhys, fSurfaceProps, fSuperconductorSensitivity,
               surfacePropertyHeap, sensitivityCount, sdManager, sensitiveVolume,
               latticeTable, generation, self, config, phys_siliconChip,
               returned, last, prev >>

GeometryFrame == ChainFrame /\ UNCHANGED anchorq1

(***************************************************************************)
(* SetupGeometry(), line 214: the chip-world border surface.               *)
(***************************************************************************)
\* the border defined from the world side
BorderWorldStage_Swapped(m, chip, world, props) ==
  G4CMPLogicalBorderSurface(m, "border_siliconChip_world", world, chip,
                            props.fSiVacuumInterface)

BorderWorldStage(m, chip, world, props) ==
  G4CMPLogicalBorderSurface(m, "border_siliconChip_world", chip, world,
                            props.fSiVacuumInterface)

BorderWorld ==
  /\ pc = "BorderWorld"
  /\ Commit(BorderWorldStage(Machine, phys_siliconChip, fWorldPhys[self], Props),
            "QubitHousing")
  /\ GeometryFrame

(***************************************************************************)
(* SetupGeometry(), lines 218-233: the copper housing.                     *)
(***************************************************************************)
\* the housing border given the conductor property
QubitHousingStage_WrongProperty(m, cfg, bp, g, chip, props) ==
  IF cfg.useQubitHousing
  THEN LET m1 == NewAssembly(m, bp, "QubitHousing", "QubitHousing", "World", g)
       IN G4CMPLogicalBorderSurface(m1, "border_siliconChip_qubitHousing", chip,
                                    m1.asm[LastAssembly(m1)].phys,
                                    props.fSiNbInterface)
  ELSE m

QubitHousingStage(m, cfg, bp, g, chip, props) ==
  IF cfg.useQubitHousing
  THEN LET m1 == NewAssembly(m, bp, "QubitHousing", "QubitHousing", "World", g)
       IN G4CMPLogicalBorderSurface(m1, "border_siliconChip_qubitHousing", chip,
                                    m1.asm[LastAssembly(m1)].phys,
                                    props.fSiCopperInterface)
  ELSE m

QubitHousing ==
  /\ pc = "QubitHousing"
  /\ Commit(QubitHousingStage(Machine, config, blueprint, generation,
                              phys_siliconChip, Props), "GroundPlane")
  /\ GeometryFrame

(***************************************************************************)
(* SetupGeometry(), lines 237-266 and 994: the ground plane, which gates   *)
(* everything up to the closing brace of line 994.                         *)
(***************************************************************************)
\* the ground plane placed on the housing flag
GroundPlaneStage_WrongFlag(m, cfg, g, chip, props) ==
  IF cfg.useQubitHousing
  THEN LET m1 == G4PVPlacement(m, "GroundPlane", "World", g)
       IN G4CMPLogicalBorderSurface(m1, "border_siliconChip_groundPlane", chip,
                                    LastPlaced(m1), props.fSiNbInterface)
  ELSE m

GroundPlaneStage(m, cfg, g, chip, props) ==
  IF cfg.useGroundPlane
  THEN LET m1 == G4PVPlacement(m, "GroundPlane", "World", g)
       IN G4CMPLogicalBorderSurface(m1, "border_siliconChip_groundPlane", chip,
                                    LastPlaced(m1), props.fSiNbInterface)
  ELSE m

\* the nested branches entered whatever the ground-plane flag says
AfterGroundPlane_Always(cfg) == "TransmissionLine"

AfterGroundPlane(cfg) ==
  IF cfg.useGroundPlane THEN "TransmissionLine" ELSE "Sensitivity"

GroundPlane ==
  /\ pc = "GroundPlane"
  /\ Commit(GroundPlaneStage(Machine, config, generation, phys_siliconChip, Props),
            AfterGroundPlane(config))
  /\ GeometryFrame

(***************************************************************************)
(* SetupGeometry(), lines 270-302: the transmission line.                  *)
(***************************************************************************)
\* a transmission line that ignores its flag
TransmissionLineStage_Ungated(m, cfg, bp, g, chip, props) ==
  BuildAndWire(m, bp, "TransmissionLine", "TransmissionLine",
               "GroundPlane_log", g, chip, props)

TransmissionLineStage(m, cfg, bp, g, chip, props) ==
  IF cfg.useTransmissionLine
  THEN BuildAndWire(m, bp, "TransmissionLine", "TransmissionLine",
                    "GroundPlane_log", g, chip, props)
  ELSE m

TransmissionLine ==
  /\ pc = "TransmissionLine"
  /\ Commit(TransmissionLineStage(Machine, config, blueprint, generation,
                                  phys_siliconChip, Props), "ResonatorAssembly")
  /\ GeometryFrame

(***************************************************************************)
(* SetupGeometry(), lines 306-361: the six resonator assemblies.           *)
(***************************************************************************)
nR == 6

\* sprintf(name, "ResonatorAssembly_%d", iR)
ResonatorAssemblyName(iR) == "ResonatorAssembly_" \o ToString(iR)

\* The translations of lines 318-326 are built from 0.5 * length, which need
\* not be a whole number of length units: they are kept in halves of the
\* length unit.
\* the bottom three laid out with the offset of the top three
resonatorAssemblyTranslate_Unmirrored(iR, p) ==
  IF iR <= 2
  THEN InHalves(
         2 * ( p.dp_resonatorLateralSpacing * (iR - 1)
               + p.dp_centralResonatorOffsetX ),
         p.dp_resonatorAssemblyBaseNbDimY + p.dp_transmissionLineCavityFullWidth)
  ELSE InHalves(
         2 * ( p.dp_resonatorLateralSpacing * (iR - 4)
               + p.dp_centralResonatorOffsetX ),
         -1 * ( p.dp_resonatorAssemblyBaseNbDimY
                + p.dp_transmissionLineCavityFullWidth ))

\* lines 314-330: the translation of assembly iR, in halves of the length
\* unit, and its rotation about Z
resonatorAssemblyTranslate(iR, p) ==
  IF iR <= 2
  THEN InHalves(
         2 * ( p.dp_resonatorLateralSpacing * (iR - 1)
               + p.dp_centralResonatorOffsetX ),
         p.dp_resonatorAssemblyBaseNbDimY + p.dp_transmissionLineCavityFullWidth)
  ELSE InHalves(
         2 * ( p.dp_resonatorLateralSpacing * (iR - 4)
               - p.dp_centralResonatorOffsetX ),
         -1 * ( p.dp_resonatorAssemblyBaseNbDimY
                + p.dp_transmissionLineCavityFullWidth ))

rotAssembly(iR) == IF iR <= 2 THEN 0 ELSE 180

RECURSIVE ResonatorAssemblyLoop(_, _, _, _, _, _, _)
ResonatorAssemblyLoop(m, iR, bp, g, chip, props, p) ==
  IF iR >= nR THEN m
  ELSE ResonatorAssemblyLoop(
         BuildAndWireAt(m, bp, "ResonatorAssembly", ResonatorAssemblyName(iR),
                        "GroundPlane_log", g, chip, props,
                        Placement(rotAssembly(iR),
                                  resonatorAssemblyTranslate(iR, p))),
         iR + 1, bp, g, chip, props, p)

\* resonator assemblies switched by the transmission-line flag
ResonatorAssemblyStage_WrongFlag(m, cfg, bp, g, chip, props, p) ==
  IF cfg.useTransmissionLine
  THEN ResonatorAssemblyLoop(m, 0, bp, g, chip, props, p)
  ELSE m

ResonatorAssemblyStage(m, cfg, bp, g, chip, props, p) ==
  IF cfg.useResonatorAssembly
  THEN ResonatorAssemblyLoop(m, 0, bp, g, chip, props, p)
  ELSE m

ResonatorAssembly ==
  /\ pc = "ResonatorAssembly"
  /\ Commit(ResonatorAssemblyStage(Machine, config, blueprint, generation,
                                   phys_siliconChip, Props, dp), "FluxLines")
  /\ GeometryFrame

(***************************************************************************)
(* A run of assemblies, each constructed and wired before the next.        *)
(***************************************************************************)
RECURSIVE BuildAll(_, _, _, _, _, _, _)
BuildAll(m, elements, k, bp, g, chip, props) ==
  IF k > Len(elements) THEN m
  ELSE BuildAll(BuildAndWire(m, bp, elements[k][1], elements[k][2],
                             "GroundPlane_log", g, chip, props),
                elements, k + 1, bp, g, chip, props)

(***************************************************************************)
(* SetupGeometry(), lines 365-588: the flux lines that are not commented   *)
(* out.                                                                    *)
(***************************************************************************)
FluxLineElements ==
  << << "CurveFluxLine", "TopStraightFluxLine" >>,
     << "CurveFluxLine", "BottomStraightFluxLine" >>,
     << "CurveFluxLine", "bottomRightFluxLine" >> >>

FluxLinesStage(m, cfg, bp, g, chip, props) ==
  IF cfg.useFluxLines
  THEN BuildAll(m, FluxLineElements, 1, bp, g, chip, props)
  ELSE m

FluxLines ==
  /\ pc = "FluxLines"
  /\ Commit(FluxLinesStage(Machine, config, blueprint, generation,
                           phys_siliconChip, Props), "QubitElements")
  /\ GeometryFrame

(***************************************************************************)
(* SetupGeometry(), lines 590-849: transmons, Xmons and resonators, built  *)
(* whenever the ground plane is.                                           *)
(***************************************************************************)
QubitElementList ==
  << << "Transmon", "Transmon" >>, << "Transmon", "Transmon" >>,
     << "Xmon", "Xmon" >>, << "Xmon", "Xmon" >>,
     << "Resonator", "Resonator0" >>, << "Resonator", "Resonator1" >>,
     << "Resonator", "Resonator0" >>, << "Resonator", "Resonator1" >> >>

QubitElementsStage(m, bp, g, chip, props) ==
  BuildAll(m, QubitElementList, 1, bp, g, chip, props)

QubitElements ==
  /\ pc = "QubitElements"
  /\ Commit(QubitElementsStage(Machine, blueprint, generation,
                               phys_siliconChip, Props), "Chain")
  /\ GeometryFrame

(***************************************************************************)
(* SetupGeometry(), lines 854-991: the chained curves and straights; only  *)
(* Straight1 and Curve1 have a leaf loop.                                  *)
(***************************************************************************)
\* G4ThreeVector anchorq1(1.3755 * mm, 0.692 * mm, 0)
AnchorStart == G4ThreeVector((13755 * mm) \div 10000, (692 * mm) \div 1000)

\* the six segments in the order of the source: the rotation and the locate
\* vector of each, whether it is placed at anchorq1 + locate or at locate, and
\* whether anchorq1 = anchorq1 + locate follows the placement
ChainElements(radius) ==
  << [type |-> "Curve", name |-> "Curve1", rotateZ |-> 180,
      locate |-> G4ThreeVector((13755 * mm) \div 10000, (692 * mm) \div 1000),
      onAnchor |-> FALSE, advance |-> FALSE],
     [type |-> "Straight", name |-> "Straight1", rotateZ |-> 180,
      locate |-> G4ThreeVector(0 - (312 * um) \div 2, radius),
      onAnchor |-> TRUE, advance |-> TRUE],
     [type |-> "Curve", name |-> "Curve2", rotateZ |-> 180,
      locate |-> G4ThreeVector(0 - (312 * um) \div 2, radius),
      onAnchor |-> TRUE, advance |-> TRUE],
     [type |-> "Straight", name |-> "Straight2", rotateZ |-> 90,
      locate |-> G4ThreeVector(0 - radius, (320 * um) \div 2),
      onAnchor |-> TRUE, advance |-> TRUE],
     [type |-> "Curve", name |-> "Curve3", rotateZ |-> 270,
      locate |-> G4ThreeVector(radius, (320 * um) \div 2),
      onAnchor |-> TRUE, advance |-> TRUE],
     [type |-> "Straight", name |-> "Straight3", rotateZ |-> 180,
      locate |-> G4ThreeVector((260 * um) \div 2, radius),
      onAnchor |-> TRUE, advance |-> FALSE] >>

\* the values anchorq1 takes: its initial value and one more for each
\* anchorq1 = anchorq1 + locate among the first k - 1 segments and after
RECURSIVE AnchorFold(_, _, _)
AnchorFold(elements, k, trace) ==
  IF k > Len(elements) THEN trace
  ELSE AnchorFold(elements, k + 1,
                  IF elements[k].advance
                  THEN Append(trace, Plus(trace[Len(trace)], elements[k].locate))
                  ELSE trace)

RECURSIVE PlaceChain(_, _, _, _, _, _)
PlaceChain(m, elements, k, bp, g, anchor) ==
  IF k > Len(elements) THEN m
  ELSE LET e == elements[k]
           translate == IF e.onAnchor THEN Plus(anchor, e.locate) ELSE e.locate
       IN PlaceChain(NewAssemblyAt(m, bp, e.type, e.name, "GroundPlane_log", g,
                                   Placement(e.rotateZ, translate)),
                     elements, k + 1, bp, g,
                     IF e.advance THEN Plus(anchor, e.locate) ELSE anchor)

ChainStage(m, bp, g, chip, props, radius) ==
  LET first == Len(m.asm)
      m1 == PlaceChain(m, ChainElements(radius), 1, bp, g, AnchorStart)
      bottomCurve1 == first + 1
      bottomStraight1 == first + 2
  IN WireLeaves(WireLeaves(m1, bottomStraight1, chip, props),
                bottomCurve1, chip, props)

Chain ==
  /\ pc = "Chain"
  /\ Commit(ChainStage(Machine, blueprint, generation, phys_siliconChip, Props,
                       dp_resonatorCurveCentralRadius), "Sensitivity")
  /\ anchorq1' = AnchorFold(ChainElements(dp_resonatorCurveCentralRadius), 1,
                            << AnchorStart >>)
  /\ ChainFrame

(***************************************************************************)
(* SetupGeometry(), lines 1001-1005: the sensitivity of the chip.          *)
(***************************************************************************)
\* a new sensitivity object for every build
NewSensitivity_Always(current, count) == count + 1

\* if (!fSuperconductorSensitivity) fSuperconductorSensitivity = new ...:
\* the object the member points at afterwards
NewSensitivity(current, count) == IF current = 0 THEN count + 1 ELSE current

Sensitivity ==
  /\ pc = "Sensitivity"
  /\ LET sd == NewSensitivity(fSuperconductorSensitivity[self], sensitivityCount)
     IN /\ sensitivityCount' = IF sd > sensitivityCount THEN sd
                               ELSE sensitivityCount
        /\ fSuperconductorSensitivity' =
             [fSuperconductorSensitivity EXCEPT ![self] = sd]
        /\ sdManager' = sdManager \cup { sd }
        /\ sensitiveVolume' = [vol |-> phys_siliconChip, sd |-> sd]
  /\ pc' = "Return"
  /\ UNCHANGED << live, dp, dp_resonatorCurveCentralRadius, anchorq1, nist, lastAttach, blueprint, fGeometryHasBeenDestroyed, fConstructed, fMaterials,
                  fWorldPhys, fSurfaceProps, surfacePropertyHeap, physStore,
                  latticeTable, surfaceTable, assemblies, clock, generation,
                  self, config, phys_siliconChip, err, returned, last, prev >>

(***************************************************************************)
(* Construct(), lines 95-97: fConstructed = true; return fWorldPhys.       *)
(* The run manager that called Construct() then holds a live geometry.     *)
(***************************************************************************)
\* the root of the first build handed out again by every later one
Return_StaleRoot ==
  /\ pc = "Return"
  /\ fConstructed' = [fConstructed EXCEPT ![self] = TRUE]
  /\ returned' = IF returned = NullVolume THEN fWorldPhys[self] ELSE returned
  /\ prev' = last
  /\ last' = BuildResult
  /\ pc' = "idle"
  /\ UNCHANGED << live, dp, dp_resonatorCurveCentralRadius, anchorq1, nist, lastAttach, blueprint, fGeometryHasBeenDestroyed, fMaterials,
                  fWorldPhys, fSurfaceProps,
                  fSuperconductorSensitivity, surfacePropertyHeap,
                  sensitivityCount, sdManager, sensitiveVolume, physStore, latticeTable,
                  surfaceTable, assemblies, clock, generation, self, config,
                  phys_siliconChip, err >>

Return ==
  /\ pc = "Return"
  /\ fConstructed' = [fConstructed EXCEPT ![self] = TRUE]
  /\ returned' = fWorldPhys[self]
  /\ prev' = last
  /\ last' = BuildResult
  /\ pc' = "idle"
  /\ UNCHANGED << live, dp, dp_resonatorCurveCentralRadius, anchorq1, nist, lastAttach, blueprint, fGeometryHasBeenDestroyed, fMaterials,
                  fWorldPhys, fSurfaceProps,
                  fSuperconductorSensitivity, surfacePropertyHeap,
                  sensitivityCount, sdManager, sensitiveVolume, physStore, latticeTable,
                  surfaceTable, assemblies, clock, generation, self, config,
                  phys_siliconChip, err >>

(***************************************************************************)
(* G4RunManager::RunInitialization(): a run on the geometry that was       *)
(* built after a ReinitializeGeometry clears the run manager's flag.       *)
(***************************************************************************)
RunInitialization ==
  /\ pc = "idle"
  /\ fGeometryHasBeenDestroyed
  /\ returned # NullVolume /\ returned.gen = generation
  /\ fGeometryHasBeenDestroyed' = FALSE
  /\ UNCHANGED << live, dp, dp_resonatorCurveCentralRadius, anchorq1, nist, lastAttach, blueprint, fConstructed, fMaterials, fWorldPhys,
                  fSurfaceProps, fSuperconductorSensitivity,
                  surfacePropertyHeap, sensitivityCount, sdManager,
                  sensitiveVolume, physStore, latticeTable, surfaceTable,
                  assemblies, clock, generation, pc, self, config,
                  phys_siliconChip, err, returned, last, prev >>

Next ==
  \/ \E i \in live, cfg \in DeviceConfig : Construct(i, cfg)
  \/ ReinitializeGeometry
  \/ RunInitialization
  \/ DefineMaterials
  \/ SurfaceProperties
  \/ World
  \/ SiliconChip
  \/ BorderWorld
  \/ QubitHousing
  \/ GroundPlane
  \/ TransmissionLine
  \/ ResonatorAssembly
  \/ FluxLines
  \/ QubitElements
  \/ Chain
  \/ Sensitivity
  \/ Return

Spec == Init /\ [][Next]_vars

SpecTwo == InitTwo /\ [][Next]_vars

SpecMaterials == InitMaterials /\ [][Next]_vars

SpecMalformed == InitMalformed /\ [][Next]_vars

(***************************************************************************)
(* AttachPhononSensor(surfProp) called on its own, between builds, with    *)
(* a null pointer or with any surface property that exists.                *)
(***************************************************************************)
AttachSensor(surfProp) ==
  /\ pc = "idle"
  /\ lastAttach.calls < MaxAttach
  /\ surfacePropertyHeap' = AttachPhononSensor(surfacePropertyHeap, surfProp)
  /\ lastAttach' = [valid |-> TRUE, calls |-> lastAttach.calls + 1,
                    prop |-> surfProp, before |-> surfacePropertyHeap,
                    after |-> AttachPhononSensor(surfacePropertyHeap, surfProp)]
  /\ UNCHANGED << live, dp, dp_resonatorCurveCentralRadius, anchorq1, nist, blueprint, fGeometryHasBeenDestroyed, fConstructed,
                  fMaterials, fWorldPhys, fSurfaceProps,
                  fSuperconductorSensitivity, sensitivityCount, sdManager,
                  sensitiveVolume, physStore, latticeTable, surfaceTable,
                  assemblies, clock, generation, pc, self, config,
                  phys_siliconChip, err, returned, last, prev >>

\* the builds between which the calls are made: the bare chip and the full
\* device
SensorConfigs == { [f \in Flags |-> FALSE], [f \in Flags |-> TRUE] }

NextSensor ==
  \/ \E i \in live, cfg \in SensorConfigs : Construct(i, cfg)
  \/ ReinitializeGeometry
  \/ RunInitialization
  \/ DefineMaterials
  \/ SurfaceProperties
  \/ World
  \/ SiliconChip
  \/ BorderWorld
  \/ QubitHousing
  \/ GroundPlane
  \/ TransmissionLine
  \/ ResonatorAssembly
  \/ FluxLines
  \/ QubitElements
  \/ Chain
  \/ Sensitivity
  \/ Return
  \/ \E surfProp \in 0..Len(surfacePropertyHeap) : AttachSensor(surfProp)

SpecSensor == Init /\ [][NextSensor]_vars

\* the builds the layouts are tried with: every setting of useGroundPlane,
\* useTransmissionLine and useResonatorAssembly
ResonatorConfigs ==
  { cfg \in [Flags -> BOOLEAN] : ~cfg.useQubitHousing /\ ~cfg.useFluxLines }

NextResonators ==
  \/ \E i \in live, cfg \in ResonatorConfigs : Construct(i, cfg)
  \/ ReinitializeGeometry
  \/ RunInitialization
  \/ DefineMaterials
  \/ SurfaceProperties
  \/ World
  \/ SiliconChip
  \/ BorderWorld
  \/ QubitHousing
  \/ GroundPlane
  \/ TransmissionLine
  \/ ResonatorAssembly
  \/ FluxLines
  \/ QubitElements
  \/ Chain
  \/ Sensitivity
  \/ Return

SpecResonators == InitResonators /\ [][NextResonators]_vars

\* two objects, each built as the bare chip or as the full device
NextFirstBuild ==
  \/ \E i \in live, cfg \in SensorConfigs : Construct(i, cfg)
  \/ ReinitializeGeometry
  \/ RunInitialization
  \/ DefineMaterials
  \/ SurfaceProperties
  \/ World
  \/ SiliconChip
  \/ BorderWorld
  \/ QubitHousing
  \/ GroundPlane
  \/ TransmissionLine
  \/ ResonatorAssembly
  \/ FluxLines
  \/ QubitElements
  \/ Chain
  \/ Sensitivity
  \/ Return

SpecFirstBuild == InitTwo /\ [][NextFirstBuild]_vars

(***************************************************************************)
(*                         Properties                                      *)
(***************************************************************************)
InterfaceNames(result) == { result.ifaces[k].name : k \in DOMAIN result.ifaces }

Building == pc \notin { "idle" }

Rebuilding == Building /\ fConstructed[self]

\* C1: building twice in succession with the same DeviceConfig on the same
\* object gives the same set of interface names and the same volume tree as
\* the first build gave, and the second build never dies of a duplicate
\* interface name.
C1_IdempotentRebuild ==
  /\ ( pc = "idle" /\ prev.valid /\ last.valid
       /\ prev.inst = last.inst /\ prev.cfg = last.cfg )
     => /\ InterfaceNames(last) = InterfaceNames(prev)
        /\ last.tree = prev.tree
  /\ ( Rebuilding /\ last.valid /\ last.inst = self /\ last.cfg = config )
     => err.kind # "DuplicateInterfaceName"

\* a second build of the full ground-plane device has completed
C1_Witness ==
  /\ pc = "idle" /\ prev.valid /\ last.valid
  /\ prev.inst = last.inst /\ prev.cfg = last.cfg
  /\ last.cfg = [f \in Flags |-> TRUE]
  /\ Len(last.ifaces) > 3

\* C2: when Construct() runs on an object that is already constructed, the
\* border-surface table and the lattice table are empty before the first
\* placement of the new generation, and from then on hold nothing of an
\* earlier generation.
C2_TeardownBeforeRegistration ==
  Rebuilding =>
    /\ \A k \in DOMAIN surfaceTable :
         /\ surfaceTable[k].v1.gen = generation
         /\ surfaceTable[k].v2.gen = generation
    /\ \A l \in latticeTable.physical : l.vol.gen = generation
    /\ pc \in { "DefineMaterials", "SurfaceProperties", "World" }
         => surfaceTable = << >> /\ latticeTable = NoLattices

\* the first border surface of a rebuild has just been defined
C2_Witness ==
  /\ Rebuilding /\ generation = 2 /\ pc = "QubitHousing"
  /\ Len(surfaceTable) = 1
  /\ Cardinality(latticeTable.physical) = 1

\* the material strings the leaf loops act on
Recognised(material) ==
  Contains(material, "Vacuum") \/ Contains(material, "Niobium")

\* the border surfaces whose second endpoint is a leaf of assembly number a
InterfacesOf(a) ==
  { i \in DOMAIN surfaceTable :
      \E k \in DOMAIN assemblies[a].list :
         surfaceTable[i].v2 = assemblies[a].list[k].vol }

ClassifiableLeaves(a) ==
  { k \in DOMAIN assemblies[a].list : Recognised(assemblies[a].list[k].material) }

Completed == pc = "idle" /\ generation >= 1

\* C3: no leaf is given two substrate interfaces: a leaf whose material
\* matches both rules has one border surface and no second one is attempted.
C3_OneInterfacePerLeaf ==
  /\ \A a \in DOMAIN assemblies : \A k \in DOMAIN assemblies[a].list :
       Cardinality({ i \in DOMAIN surfaceTable :
                       surfaceTable[i].v2 = assemblies[a].list[k].vol }) <= 1
  /\ ~( /\ err.kind = "DuplicateInterfaceName"
        /\ \E i \in DOMAIN surfaceTable :
             /\ surfaceTable[i].name = err.name
             /\ surfaceTable[i].v2 = err.v2 )

\* C4: a leaf loop that meets a material it does not recognise ends the
\* build; a build that goes on has recognised every leaf it has looped over.
C4_UnrecognisedRoleAborts ==
  pc # "aborted" =>
    \A a \in DOMAIN assemblies :
      assemblies[a].wired =>
        \A k \in DOMAIN assemblies[a].list :
          Recognised(assemblies[a].list[k].material)

\* C5: after a completed build, every assembly the build holds has as many
\* substrate interfaces as its catalog has leaves with a recognised material.
C5_InterfaceCount ==
  Completed =>
    \A a \in DOMAIN assemblies :
      Cardinality(InterfacesOf(a)) = Cardinality(ClassifiableLeaves(a))

\* what the source does: the count holds for the assemblies that have a leaf
\* loop, and an assembly without one has no interface at all
InterfaceCountAsBuilt ==
  Completed =>
    \A a \in DOMAIN assemblies :
      IF assemblies[a].wired
      THEN Cardinality(InterfacesOf(a)) = Cardinality(ClassifiableLeaves(a))
      ELSE InterfacesOf(a) = {}

\* C6: within one generation no two border surfaces share a name, and the
\* build never asks for a name that another volume of the same generation
\* already holds.
C6_NamesDistinct ==
  /\ \A i, j \in DOMAIN surfaceTable :
       i # j => surfaceTable[i].name # surfaceTable[j].name
  /\ ~( /\ err.kind = "DuplicateInterfaceName"
        /\ \E i \in DOMAIN surfaceTable :
             /\ surfaceTable[i].name = err.name
             /\ surfaceTable[i].v2 # err.v2
             /\ surfaceTable[i].v2.gen = err.v2.gen )

\* C7: every border surface in the table has the chip substrate of the
\* current generation as its first endpoint and another volume as its second.
C7_SubstrateFirst ==
  \A k \in DOMAIN surfaceTable :
    /\ surfaceTable[k].v1 = phys_siliconChip
    /\ surfaceTable[k].v1.name = "SiliconChip"
    /\ surfaceTable[k].v1.gen = generation
    /\ surfaceTable[k].v2.name # "SiliconChip"
    /\ surfaceTable[k].v2 # surfaceTable[k].v1

\* a rebuilt device with fixed, assembly and chain border surfaces
C7_Witness ==
  /\ Completed /\ generation = 2
  /\ Len(surfaceTable) > 10
  /\ \E k \in DOMAIN surfaceTable :
       surfaceTable[k].name = "border_siliconChip_Curve1_Conductor"

(***************************************************************************)
(* Which branch of SetupGeometry a volume or a border surface of a result  *)
(* belongs to, read off its name and its mother.                           *)
(***************************************************************************)
QubitAdjacentNames == { "Transmon", "Xmon", "Resonator0", "Resonator1",
                        "Curve1", "Curve2", "Curve3",
                        "Straight1", "Straight2", "Straight3" }

FluxLineNames == { "TopStraightFluxLine", "BottomStraightFluxLine",
                   "bottomRightFluxLine" }

ResonatorAssemblyNames == { "ResonatorAssembly_0", "ResonatorAssembly_1",
                            "ResonatorAssembly_2", "ResonatorAssembly_3",
                            "ResonatorAssembly_4", "ResonatorAssembly_5" }

NestedFlags == { "useTransmissionLine", "useResonatorAssembly", "useFluxLines" }

TopBranch(n) ==
  CASE n = "QubitHousing" -> "useQubitHousing"
    [] n = "GroundPlane" -> "useGroundPlane"
    [] n \in QubitAdjacentNames -> "useGroundPlane"
    [] n = "TransmissionLine" -> "useTransmissionLine"
    [] n \in ResonatorAssemblyNames -> "useResonatorAssembly"
    [] n \in FluxLineNames -> "useFluxLines"
    [] OTHER -> "none"

\* e = << name, mother >>
BranchOfEntry(e) ==
  IF TopBranch(e[1]) # "none" THEN TopBranch(e[1]) ELSE TopBranch(e[2])

TreeSet(r) == { r.tree[k] : k \in DOMAIN r.tree }

IfaceSet(r) == { r.ifaces[k] : k \in DOMAIN r.ifaces }

BranchOfInterface(r, i) ==
  IF TopBranch(i.b) # "none" THEN TopBranch(i.b)
  ELSE LET mothers == { e[2] : e \in { x \in TreeSet(r) : x[1] = i.b } }
       IN IF mothers = {} THEN "none"
          ELSE TopBranch(CHOOSE x \in mothers : TRUE)

CountNamed(tree, n) == Cardinality({ k \in DOMAIN tree : tree[k][1] = n })

GroundPlaneOnly == [f \in Flags |-> f = "useGroundPlane"]

\* the volume tree of the running or last generation
CurrentTree ==
  IF Completed THEN last.tree ELSE VolumeTree(physStore, generation)

PastGroundPlane ==
  pc \in { "TransmissionLine", "ResonatorAssembly", "FluxLines",
           "QubitElements", "Chain", "Sensitivity", "Return", "aborted" }
  \/ Completed

\* the qubit-element step has run, whether the build went on or ended there
PastQubitElements ==
  pc \in { "Chain", "Sensitivity", "Return", "aborted" } \/ Completed

\* C8 as stated: with only useGroundPlane set the build creates one substrate,
\* one ground plane and exactly two border surfaces, and no qubit, resonator
\* or flux-line volume.
C8_GroundPlaneOnly ==
  ( config = GroundPlaneOnly /\ PastGroundPlane ) =>
    /\ CountNamed(CurrentTree, "SiliconChip") = 1
    /\ CountNamed(CurrentTree, "GroundPlane") = 1
    /\ \A k \in DOMAIN CurrentTree :
         CurrentTree[k][1] \notin QubitAdjacentNames \cup FluxLineNames
                                    \cup ResonatorAssemblyNames
    /\ Completed =>
         InterfaceNames(last) = { "border_siliconChip_world",
                                  "border_siliconChip_groundPlane" }

\* C8 amended: with only useGroundPlane set the build creates one substrate,
\* one ground plane, the substrate-world and substrate-groundplane border
\* surfaces, and no housing, transmission-line, resonator-assembly or
\* flux-line volume; the fixed qubit-adjacent elements are built all the same
\* (a Transmon is there as soon as their step has run, all ten kinds when the
\* build has completed), and every further border surface is on a leaf of
\* one of them.
C8_GroundPlaneOnlyAmended ==
  ( config = GroundPlaneOnly /\ PastGroundPlane ) =>
    /\ CountNamed(CurrentTree, "SiliconChip") = 1
    /\ CountNamed(CurrentTree, "GroundPlane") = 1
    /\ \A k \in DOMAIN CurrentTree :
         BranchOfEntry(CurrentTree[k]) \in { "none", "useGroundPlane" }
    /\ Len(surfaceTable) >= 2
    /\ surfaceTable[1].name = "border_siliconChip_world"
    /\ surfaceTable[1].v2.name = "World"
    /\ surfaceTable[2].name = "border_siliconChip_groundPlane"
    /\ surfaceTable[2].v2.name = "GroundPlane"
    /\ \A k \in DOMAIN surfaceTable :
         k > 2 => surfaceTable[k].v2.mother \in QubitAdjacentNames
    /\ PastQubitElements => CountNamed(CurrentTree, "Transmon") >= 1
    /\ Completed =>
         /\ \A n \in QubitAdjacentNames : CountNamed(last.tree, n) >= 1
         /\ \A n \in { "Transmon", "Xmon", "Resonator0", "Resonator1" } :
              CountNamed(last.tree, n) = 2

\* a completed ground-plane-only build with more than the two fixed surfaces
C8_Witness ==
  /\ Completed /\ config = GroundPlaneOnly
  /\ Len(surfaceTable) > 2
  /\ CountNamed(last.tree, "Transmon") = 2

\* C9: with useGroundPlane and useQubitHousing false the build creates the
\* world, one substrate and the substrate-world border surface and nothing
\* else, whatever the three nested flags say.
C9_NestedFlagsInert ==
  ( generation >= 1 /\ ~config.useGroundPlane /\ ~config.useQubitHousing ) =>
    /\ assemblies = << >>
    /\ \A k \in DOMAIN physStore :
         physStore[k].gen = generation
           => physStore[k].name \in { "World", "SiliconChip" }
    /\ Len(surfaceTable) <= 1
    /\ Completed =>
         /\ last.tree = << << "World", "" >>, << "SiliconChip", "World" >> >>
         /\ last.ifaces = << [name |-> "border_siliconChip_world",
                              a |-> "SiliconChip", b |-> "World",
                              prop |-> "SiVacuumInterface"] >>

\* such a build, with the three nested flags set, has completed
C9_Witness ==
  /\ Completed
  /\ ~config.useGroundPlane /\ ~config.useQubitHousing
  /\ config.useTransmissionLine /\ config.useResonatorAssembly
  /\ config.useFluxLines
  /\ Len(surfaceTable) = 1

(***************************************************************************)
(* Two successive completed builds of one object whose configs differ in   *)
(* the flag f alone.                                                       *)
(***************************************************************************)
ToggledPair(f) ==
  /\ Completed /\ prev.valid /\ last.valid /\ prev.inst = last.inst
  /\ prev.cfg[f] # last.cfg[f]
  /\ \A g \in Flags \ { f } : prev.cfg[g] = last.cfg[g]

WithFlag(f) == IF last.cfg[f] THEN last ELSE prev

WithoutFlag(f) == IF last.cfg[f] THEN prev ELSE last

\* C10 as stated: the two results differ by exactly what f's own branch
\* creates.
C10_ToggleIsolation ==
  \A f \in Flags :
    ToggledPair(f) =>
      /\ TreeSet(WithoutFlag(f)) \subseteq TreeSet(WithFlag(f))
      /\ IfaceSet(WithoutFlag(f)) \subseteq IfaceSet(WithFlag(f))
      /\ TreeSet(WithFlag(f)) \ TreeSet(WithoutFlag(f))
           = { e \in TreeSet(WithFlag(f)) : BranchOfEntry(e) = f }
      /\ IfaceSet(WithFlag(f)) \ IfaceSet(WithoutFlag(f))
           = { i \in IfaceSet(WithFlag(f)) :
                 BranchOfInterface(WithFlag(f), i) = f }

\* what goes when f goes: f's own branch, and for useGroundPlane the nested
\* branches too
DependsOn(f, branch) ==
  branch = f \/ ( f = "useGroundPlane" /\ branch \in NestedFlags )

\* C10 amended: the two results differ by exactly f's own branch for the
\* housing and the three nested flags, and for useGroundPlane by the ground
\* plane, the fixed qubit-adjacent elements and every nested branch that is
\* switched on.
C10_ToggleIsolationAmended ==
  \A f \in Flags :
    ToggledPair(f) =>
      /\ TreeSet(WithoutFlag(f)) \subseteq TreeSet(WithFlag(f))
      /\ IfaceSet(WithoutFlag(f)) \subseteq IfaceSet(WithFlag(f))
      /\ TreeSet(WithFlag(f)) \ TreeSet(WithoutFlag(f))
           = { e \in TreeSet(WithFlag(f)) : DependsOn(f, BranchOfEntry(e)) }
      /\ IfaceSet(WithFlag(f)) \ IfaceSet(WithoutFlag(f))
           = { i \in IfaceSet(WithFlag(f)) :
                 DependsOn(f, BranchOfInterface(WithFlag(f), i)) }

\* the ground plane was toggled with the transmission line switched on
C10_Witness ==
  /\ ToggledPair("useGroundPlane")
  /\ last.cfg.useTransmissionLine /\ last.cfg.useResonatorAssembly
  /\ \E e \in TreeSet(WithFlag("useGroundPlane")) :
       BranchOfEntry(e) = "useTransmissionLine"

\* C11: two objects built one after the other with the same DeviceConfig, in
\* one process, give the same volume tree and the same interfaces (names,
\* endpoints, properties), and the build of the second object does not fail.
C11_DeterminismAcrossInstances ==
  /\ ( Completed /\ prev.valid /\ last.valid
       /\ prev.inst # last.inst /\ prev.cfg = last.cfg )
     => /\ last.tree = prev.tree
        /\ IfaceSet(last) = IfaceSet(prev)
  /\ ( last.valid /\ last.inst # self /\ last.cfg = config )
     => pc # "aborted"

\* an AttachPhononSensor call has been made from outside SetupGeometry
DirectCall == lastAttach.valid /\ lastAttach.calls >= 1

\* C12: AttachPhononSensor called with a null property changes no property,
\* no sensor parameter and no electrode binding, and raises nothing.
C12_NullAttachIsNoOp ==
  ( lastAttach.valid /\ lastAttach.prop = 0 ) =>
    /\ lastAttach.after = lastAttach.before
    /\ ( pc = "idle" => surfacePropertyHeap = lastAttach.before /\ err = NoError )

\* a null attachment made when three properties exist, one with its sensor
C12_Witness ==
  /\ DirectCall /\ lastAttach.prop = 0
  /\ Len(lastAttach.before) = 3
  /\ lastAttach.before[1].electrode = 1
  /\ lastAttach.before[2].electrode = 0

\* C13: attaching a sensor to a property that already has one leaves it with
\* one electrode and the parameter set it had after the first attachment, and
\* leaves every other property alone.
C13_AttachIdempotent ==
  ( lastAttach.valid /\ lastAttach.prop # 0
    /\ lastAttach.before[lastAttach.prop].electrode >= 1 ) =>
    /\ lastAttach.after = lastAttach.before
    /\ lastAttach.after[lastAttach.prop].electrode = 1
    /\ lastAttach.after[lastAttach.prop].sensor = SensorProperties
    /\ ( pc = "idle" => surfacePropertyHeap = lastAttach.after /\ err = NoError )

\* a second attachment to the niobium property, and one to a property that
\* got its first sensor from the call before
C13_Witness ==
  /\ DirectCall /\ lastAttach.prop = 1
  /\ lastAttach.before[1].electrode = 1
  /\ Len(lastAttach.after[1].sensor) = 8

\* C14: when a material that DefineMaterials looks up is absent, the build
\* ends at that step: SetupGeometry is not entered, no volume, surface
\* property or border surface is created, the object is not marked
\* constructed and no world volume is returned.
C14_MissingMaterialIsFatal ==
  ( nist # NistMaterials /\ generation >= 1 ) =>
    /\ pc \in { "DefineMaterials", "aborted" }
    /\ physStore = << >>
    /\ surfaceTable = << >>
    /\ surfacePropertyHeap = << >>
    /\ ~fConstructed[self]
    /\ returned = NullVolume

\* C15: a build that a malformed blueprint makes fail has been refused
\* before it touched a sink: the volume store, the border-surface table, the
\* lattice table and the sensitive-detector registry hold nothing of the
\* failed generation, and after a failed first build they are empty.
C15_FailureBeforeSinkMutation ==
  ( pc = "aborted" /\ err.kind = "ValidationError" ) =>
    /\ \A k \in DOMAIN physStore : physStore[k].gen # generation
    /\ \A k \in DOMAIN surfaceTable : surfaceTable[k].v1.gen # generation
    /\ \A l \in latticeTable.physical : l.vol.gen # generation
    /\ sensitiveVolume.vol.gen # generation
    /\ generation = 1 =>
         /\ physStore = << >> /\ surfaceTable = << >>
         /\ latticeTable = NoLattices /\ sdManager = {}

\* what the source does: the blueprint is first looked at when the first
\* assembly class is constructed, after the world, the chip, the lattice
\* registration and the world border of the generation have been made
ValidationFailureAsBuilt ==
  ( pc = "aborted" /\ err.kind = "ValidationError" ) =>
    /\ Malformed(blueprint)
    /\ \E k \in DOMAIN physStore :
         physStore[k].name = "World" /\ physStore[k].gen = generation
    /\ \E k \in DOMAIN physStore :
         physStore[k].name = "SiliconChip" /\ physStore[k].gen = generation
    /\ \E k \in DOMAIN surfaceTable :
         /\ surfaceTable[k].name = "border_siliconChip_world"
         /\ surfaceTable[k].v1.gen = generation
    /\ \E l \in latticeTable.physical : l.vol.gen = generation

(***************************************************************************)
(* The path the six segments trace, from the free end of Curve1 to the     *)
(* free end of Straight3: a half turn to the left, 312 um, a quarter turn  *)
(* to the right, 320 um, a quarter turn to the right, 260 um.              *)
(***************************************************************************)
ChainPath ==
  << [kind |-> "arc", turn |-> 180], [kind |-> "line", length |-> 312 * um],
     [kind |-> "arc", turn |-> 0 - 90], [kind |-> "line", length |-> 320 * um],
     [kind |-> "arc", turn |-> 0 - 90], [kind |-> "line", length |-> 260 * um] >>

\* the unit vector of a heading that is a multiple of 90 degrees
Dir(h) ==
  CASE h % 360 = 0 -> G4ThreeVector(1, 0)
    [] h % 360 = 90 -> G4ThreeVector(0, 1)
    [] h % 360 = 180 -> G4ThreeVector(0 - 1, 0)
    [] h % 360 = 270 -> G4ThreeVector(0, 0 - 1)

Scaled(c, v) == G4ThreeVector(c * v.x, c * v.y)

\* how far one piece of the path carries a point that arrives with heading h
Displacement(piece, h, radius) ==
  IF piece.kind = "line" THEN Scaled(piece.length, Dir(h))
  ELSE IF piece.turn > 0
       THEN Scaled(radius, Plus(Dir(h + 90), Dir(h + 270 + piece.turn)))
       ELSE Scaled(radius, Plus(Dir(h + 270), Dir(h + 90 + piece.turn)))

RECURSIVE Closure(_, _, _, _)
Closure(path, k, h, radius) ==
  IF k > Len(path) THEN G4ThreeVector(0, 0)
  ELSE Plus(Displacement(path[k], h, radius),
            Closure(path, k + 1,
                    IF path[k].kind = "arc" THEN h + 360 + path[k].turn ELSE h,
                    radius))

\* C16: when the chain has been built, the displacement of anchorq1 from its
\* initial value equals the closure of the path, computed from the segment
\* lengths, the curve radius and the turns.
C16_ChainClosure ==
  anchorq1 # << >> =>
    Plus(anchorq1[1],
         Closure(ChainPath, 1, 0, dp_resonatorCurveCentralRadius))
      = anchorq1[Len(anchorq1)]

\* the surface properties named n
PropertiesNamed(n) ==
  { k \in DOMAIN surfacePropertyHeap : surfacePropertyHeap[k].name = n }

PropertyNames == { "SiNbInterface", "SiCopperInterface", "SiVacuumInterface" }

\* the surface-property step of the running or last build is done
PropertiesDefined == generation >= 1 /\ pc \notin { "DefineMaterials", "SurfaceProperties" }

\* C17: after one build or more of an object, exactly one surface property
\* exists for each of SiNbInterface, SiCopperInterface and SiVacuumInterface,
\* and the object's three members point at them.
C17_OnePropertyPerPairing ==
  PropertiesDefined =>
    /\ \A n \in PropertyNames : Cardinality(PropertiesNamed(n)) = 1
    /\ Len(surfacePropertyHeap) = Cardinality(PropertyNames)
    /\ PropertiesNamed("SiNbInterface") = { fSurfaceProps[self].fSiNbInterface }
    /\ PropertiesNamed("SiCopperInterface") = { fSurfaceProps[self].fSiCopperInterface }
    /\ PropertiesNamed("SiVacuumInterface") = { fSurfaceProps[self].fSiVacuumInterface }

\* a rebuild of the full device has completed
C17_Witness ==
  /\ Completed /\ generation = 2 /\ fConstructed[self]
  /\ config = [f \in Flags |-> TRUE]
  /\ Len(surfacePropertyHeap) = 3

\* the volumes of the running generation, and those of them named n
Placed == { k \in DOMAIN physStore : physStore[k].gen = generation }

PlacedNamed(n) == { k \in Placed : physStore[k].name = n }

\* the volumes created inside the ground-plane branch, the plane itself apart
Nested ==
  { k \in Placed :
      /\ physStore[k].name # "GroundPlane"
      /\ BranchOfEntry(<< physStore[k].name, physStore[k].mother >>)
           \in NestedFlags \cup { "useGroundPlane" } }

HousingVolumes ==
  { k \in Placed :
      BranchOfEntry(<< physStore[k].name, physStore[k].mother >>)
        = "useQubitHousing" }

\* every volume of as was placed before every volume of bs
Before(as, bs) ==
  \A a \in as, b \in bs : physStore[a].stamp < physStore[b].stamp

\* the order of the volumes of the running generation
VolumeOrder ==
  generation >= 1 =>
    /\ Before(PlacedNamed("World"), Placed \ PlacedNamed("World"))
    /\ Before(PlacedNamed("SiliconChip"),
              Placed \ ( PlacedNamed("World") \cup PlacedNamed("SiliconChip") ))
    /\ Before(HousingVolumes, PlacedNamed("GroundPlane") \cup Nested)
    /\ Before(PlacedNamed("GroundPlane"), Nested)
    /\ Nested # {} => PlacedNamed("GroundPlane") # {}
    /\ Placed # {} => Cardinality(PlacedNamed("World")) = 1

\* a step that defines border surfaces defines them between volumes that
\* stand in the store, of the running generation, placed before the surface
InterfaceAfterVolumes ==
  \A i \in DOMAIN surfaceTable' :
    ( i > Len(surfaceTable) \/ surfaceTable'[i] # surfaceTable[i] ) =>
      /\ \E k \in DOMAIN physStore' :
           /\ physStore'[k] = surfaceTable'[i].v1
           /\ physStore'[k].gen = generation'
      /\ \E k \in DOMAIN physStore' :
           /\ physStore'[k] = surfaceTable'[i].v2
           /\ physStore'[k].gen = generation'
      /\ surfaceTable'[i].v1.stamp < surfaceTable'[i].stamp
      /\ surfaceTable'[i].v2.stamp < surfaceTable'[i].stamp

\* C18: within one build the world comes first, then the substrate, then the
\* housing, then the ground plane, then what is nested under it; a border
\* surface is defined after both of its volumes were placed, in its own
\* generation; nothing nested exists without the ground plane before it.
C18_CreationOrder == [] VolumeOrder /\ [][InterfaceAfterVolumes]_vars

\* a completed build with housing, ground plane and nested assemblies
C18_Witness ==
  /\ Completed /\ config = [f \in Flags |-> TRUE]
  /\ HousingVolumes # {} /\ PlacedNamed("GroundPlane") # {}
  /\ \E k \in Nested : physStore[k].name = "ResonatorAssembly_3"
  /\ Len(surfaceTable) > 10

\* the border surfaces of the table whose second volume is named n
BordersTo(n) ==
  LET ifaces == InterfaceList(surfaceTable, surfacePropertyHeap)
  IN { ifaces[k] : k \in { j \in DOMAIN ifaces : ifaces[j].b = n } }

\* there is one border to n, it starts at the substrate and uses property p
OneBorder(n, p) ==
  /\ Cardinality({ k \in DOMAIN surfaceTable : surfaceTable[k].v2.name = n }) = 1
  /\ \A i \in BordersTo(n) : i.a = "SiliconChip" /\ i.prop = p

\* C19: once the fixed part of a build is done, the substrate-world border
\* exists and uses the substrate/vacuum property; the substrate-housing
\* border exists exactly when useQubitHousing is set, whatever useGroundPlane
\* is, and uses the substrate/copper property; the substrate-ground-plane
\* border exists exactly when useGroundPlane is set and uses the
\* substrate/niobium property.
C19_FixedInterfaces ==
  PastGroundPlane =>
    /\ OneBorder("World", "SiVacuumInterface")
    /\ IF config.useQubitHousing
       THEN OneBorder("QubitHousing", "SiCopperInterface")
       ELSE BordersTo("QubitHousing") = {}
    /\ IF config.useGroundPlane
       THEN OneBorder("GroundPlane", "SiNbInterface")
       ELSE BordersTo("GroundPlane") = {}

\* a finished build with the housing and without the ground plane, and the
\* housing border in the table
C19_Witness ==
  /\ Completed
  /\ config.useQubitHousing /\ ~config.useGroundPlane
  /\ BordersTo("QubitHousing") # {}
  /\ BordersTo("World") # {}

\* the resonator assemblies of the running or last build
ResonatorAssemblies ==
  { a \in DOMAIN assemblies : assemblies[a].type = "ResonatorAssembly" }

Instance(iR) ==
  { a \in ResonatorAssemblies :
      assemblies[a].name = "ResonatorAssembly_" \o ToString(iR) }

\* where the instances iR of `range' were put (in halves of the length
\* unit), and the image of a set of positions under the rotation by 180
\* degrees about Z
Translations(range) ==
  { G4ThreeVector(assemblies[a].at.x, assemblies[a].at.y) :
      a \in UNION { Instance(iR) : iR \in range } }

Rotated180(positions) == { G4ThreeVector(-t.x, -t.y) : t \in positions }

\* the resonator-assembly step of the running build is over
PastResonatorAssembly ==
  pc \in { "FluxLines", "QubitElements", "Chain", "Sensitivity", "Return" }
  \/ Completed

\* C20: once a build with useGroundPlane and useResonatorAssembly is past its
\* resonator step there are six resonator assemblies, one of each name
\* ResonatorAssembly_0 .. ResonatorAssembly_5; 0-2 are not rotated, 3-5 are
\* rotated by 180 degrees about Z; the positions of 3-5 are the positions of
\* 0-2 with x and y negated; each has one border surface per leaf.
C20_SixMirroredResonators ==
  ( PastResonatorAssembly /\ config.useGroundPlane
    /\ config.useResonatorAssembly ) =>
    /\ Cardinality(ResonatorAssemblies) = 6
    /\ \A iR \in 0..5 : Cardinality(Instance(iR)) = 1
    /\ \A a \in ResonatorAssemblies :
         /\ assemblies[a].at.tracked
         /\ assemblies[a].wired
         /\ Cardinality(InterfacesOf(a)) = Len(assemblies[a].list)
         /\ Cardinality(InterfacesOf(a)) = Cardinality(ClassifiableLeaves(a))
    /\ \A iR \in 0..2 : \A a \in Instance(iR) : assemblies[a].at.rotateZ = 0
    /\ \A iR \in 3..5 : \A a \in Instance(iR) : assemblies[a].at.rotateZ = 180
    /\ Cardinality(Translations(0..2)) = 3
    /\ Translations(3..5) = Rotated180(Translations(0..2))

\* a finished build that laid six assemblies out with the central one off
\* the axis
C20_Witness ==
  /\ Completed
  /\ config.useGroundPlane /\ config.useResonatorAssembly
  /\ dp.dp_centralResonatorOffsetX # 0
  /\ Cardinality(ResonatorAssemblies) = 6
  /\ Translations(3..5) # Translations(0..2)

\* the flux lines of the running or last build, and their border surfaces
FluxLineAssemblies ==
  { a \in DOMAIN assemblies : assemblies[a].type = "CurveFluxLine" }

FluxLineVolumes ==
  { k \in Placed : TopBranch(physStore[k].name) = "useFluxLines"
                     \/ TopBranch(physStore[k].mother) = "useFluxLines" }

FluxLineBorders ==
  { i \in DOMAIN surfaceTable :
      TopBranch(surfaceTable[i].v2.mother) = "useFluxLines" }

\* the flux-line step of the running build is over
PastFluxLines ==
  pc \in { "QubitElements", "Chain", "Sensitivity", "Return" } \/ Completed

\* C21: once a build is past its flux-line step, with useGroundPlane and
\* useFluxLines it has built exactly two curved flux lines, each with one
\* border surface per classifiable leaf; with useFluxLines off it has built
\* no flux-line volume and no flux-line border surface.
C21_TwoFluxLines ==
  PastFluxLines =>
    /\ ( config.useGroundPlane /\ config.useFluxLines ) =>
         /\ Cardinality(FluxLineAssemblies) = 2
         /\ \A a \in FluxLineAssemblies :
              Cardinality(InterfacesOf(a)) = Cardinality(ClassifiableLeaves(a))
    /\ ~config.useFluxLines =>
         /\ FluxLineAssemblies = {}
         /\ FluxLineVolumes = {}
         /\ FluxLineBorders = {}

\* what the source does instead: three flux lines, and none when the flag
\* is off
FluxLinesAsBuilt ==
  PastFluxLines =>
    /\ ( config.useGroundPlane /\ config.useFluxLines ) =>
         /\ { assemblies[a].name : a \in FluxLineAssemblies } = FluxLineNames
         /\ Cardinality(FluxLineAssemblies) = 3
         /\ \A a \in FluxLineAssemblies :
              Cardinality(InterfacesOf(a)) = Cardinality(ClassifiableLeaves(a))
    /\ ~config.useFluxLines =>
         /\ FluxLineAssemblies = {}
         /\ FluxLineVolumes = {}
         /\ FluxLineBorders = {}

\* the qubit-adjacent elements of the running or last build
QubitAdjacent ==
  { a \in DOMAIN assemblies : assemblies[a].name \in QubitAdjacentNames }

ChainSegmentNames ==
  { "Curve1", "Curve2", "Curve3", "Straight1", "Straight2", "Straight3" }

\* the chain step of the running build is over
PastChain == pc \in { "Sensitivity", "Return" } \/ Completed

\* C22: once a build with the ground plane is past the chain, it holds two
\* transmons, two Xmons, four resonators and the six chain segments, and
\* every one of them has had its leaf loop run, every leaf of its catalog
\* being the second volume of a border surface.
C22_EveryElementWired ==
  ( PastChain /\ config.useGroundPlane ) =>
    /\ Cardinality(QubitAdjacent) = 14
    /\ \A a \in QubitAdjacent :
         /\ assemblies[a].wired
         /\ \A k \in DOMAIN assemblies[a].list :
              \E i \in DOMAIN surfaceTable :
                surfaceTable[i].v2 = assemblies[a].list[k].vol

\* what the source does for the chain: Straight1 and Curve1 have a leaf loop,
\* the other four segments have none and no border surface
ChainAsBuilt ==
  ( PastChain /\ config.useGroundPlane ) =>
    \A a \in QubitAdjacent :
      assemblies[a].name \in ChainSegmentNames =>
        /\ assemblies[a].wired <=> assemblies[a].name \in { "Straight1", "Curve1" }
        /\ ~assemblies[a].wired => InterfacesOf(a) = {}

\* the heading with which a point enters piece k of the path
RECURSIVE HeadingAt(_, _)
HeadingAt(path, k) ==
  IF k = 1 THEN 0
  ELSE IF path[k - 1].kind = "arc"
       THEN HeadingAt(path, k - 1) + 360 + path[k - 1].turn
       ELSE HeadingAt(path, k - 1)

\* the far end of segment k, seen from the near end of the first segment
RECURSIVE ExitOf(_, _, _)
ExitOf(path, k, radius) ==
  IF k = 0 THEN G4ThreeVector(0, 0)
  ELSE Plus(ExitOf(path, k - 1, radius),
            Displacement(path[k], HeadingAt(path, k), radius))

\* C23: when the chain has been built the anchor has been advanced once
\* after each of the six segments, and the value it has for segment k + 1
\* is the far end of segment k.
C23_AnchorIsLeftFold ==
  anchorq1 # << >> =>
    /\ Len(anchorq1) = Len(ChainPath) + 1
    /\ \A k \in 1..Len(ChainPath) :
         k + 1 \in DOMAIN anchorq1 =>
           anchorq1[k + 1]
             = Plus(anchorq1[1],
                    ExitOf(ChainPath, k, dp_resonatorCurveCentralRadius))

\* what the source does: four advances for six segments, each by the locate
\* vector the segment was placed with
AnchorAsBuilt ==
  anchorq1 # << >> =>
    LET R == dp_resonatorCurveCentralRadius
    IN anchorq1
         = << AnchorStart,
              Plus(AnchorStart, G4ThreeVector(0 - 156 * um, R)),
              Plus(AnchorStart, G4ThreeVector(0 - 312 * um, 2 * R)),
              Plus(AnchorStart, G4ThreeVector(0 - 312 * um - R, 2 * R + 160 * um)),
              Plus(AnchorStart, G4ThreeVector(0 - 312 * um, 2 * R + 320 * um)) >>

\* C24: a build that gets to its end has set the sensitivity on the chip of
\* its own generation, and the detector is with the detector manager; the
\* chip of a generation is sensitive only once every geometry step of that
\* generation is over; one object never creates a second sensitivity, every
\* build registering the one its member points at.
C24_SensitivityOnCurrentChip ==
  /\ sensitivityCount <= 1
  /\ ( generation >= 1 /\ sensitiveVolume.vol.gen = generation )
       => pc \in { "Return", "idle" }
  /\ ( pc = "Return" \/ Completed ) =>
       /\ sensitiveVolume.vol = phys_siliconChip
       /\ sensitiveVolume.vol.name = "SiliconChip"
       /\ sensitiveVolume.vol.gen = generation
       /\ sensitiveVolume.vol.stamp < clock
       /\ \A i \in DOMAIN surfaceTable :
            surfaceTable[i].v1.gen = generation
              => surfaceTable[i].stamp <= clock
       /\ sensitiveVolume.sd = 1
       /\ fSuperconductorSensitivity[self] = 1
       /\ sdManager = { 1 }

\* a rebuild of the full device has registered the sensitivity again
C24_Witness ==
  /\ Completed /\ generation = 2
  /\ config.useGroundPlane /\ config.useQubitHousing
  /\ sensitiveVolume.vol.gen = 2
  /\ sensitivityCount = 1
  /\ Len(surfaceTable) > 10

\* a step sets fConstructed of an object only as the last step of a build of
\* that object, the materials defined and SetupGeometry run to its last
\* statement; no step clears it
BuiltOnlyAtTheEnd ==
  \A i \in Instances :
    /\ ( ~fConstructed[i] /\ fConstructed'[i] ) =>
         /\ pc = "Return" /\ pc' = "idle" /\ self = i
         /\ fMaterials[i].fSilicon = "G4_Si"
         /\ fWorldPhys[i].gen = generation
         /\ phys_siliconChip.gen = generation
         /\ sensitiveVolume.vol = phys_siliconChip
    /\ fConstructed[i] => fConstructed'[i]

\* what a build returned is the world volume it placed itself
ReturnsOwnRoot ==
  Completed =>
    /\ fConstructed[self]
    /\ returned = fWorldPhys[self]
    /\ returned.name = "World"
    /\ returned.gen = generation

\* C25: fConstructed of an object becomes true only when DefineMaterials and
\* SetupGeometry of a build of that object have both run to their end, and
\* is never cleared afterwards; the volume a build returns is the world
\* volume placed by that same build, never that of an earlier generation.
C25_BuiltFlagAndRoot == [] ReturnsOwnRoot /\ [][BuiltOnlyAtTheEnd]_vars

\* a second build has returned its own world volume
C25_Witness ==
  /\ Completed /\ generation = 2
  /\ fConstructed[self]
  /\ returned.gen = 2 /\ returned.name = "World"
  /\ prev.valid

\* the assemblies whose leaf loop has run, and the border surfaces defined
\* on leaf k of assembly a under property p
Wired == { a \in DOMAIN assemblies : assemblies[a].wired }

LeafBordersWith(a, k, p) ==
  { i \in DOMAIN surfaceTable :
      /\ surfaceTable[i].v2 = assemblies[a].list[k].vol
      /\ surfaceTable[i].v1 = phys_siliconChip
      /\ surfaceTable[i].name = "border_siliconChip_" \o assemblies[a].list[k].name
      /\ surfacePropertyHeap[surfaceTable[i].prop].name = p }

\* C26: whatever assembly a leaf loop has run over, a border surface on one
\* of its leaves is named border_siliconChip_ + the leaf's name, starts at
\* the chip, and uses the vacuum property only if the leaf's material
\* contains "Vacuum", the niobium property only if it contains "Niobium";
\* and, the loop having ended without a fatal error, a leaf whose material
\* contains "Vacuum" has such a surface with the vacuum property and a leaf
\* whose material contains "Niobium" has one with the niobium property.
C26_SameRuleInEveryLoop ==
  \A a \in Wired : \A k \in DOMAIN assemblies[a].list :
    LET leaf == assemblies[a].list[k]
        onLeaf == { i \in DOMAIN surfaceTable : surfaceTable[i].v2 = leaf.vol }
    IN /\ onLeaf = LeafBordersWith(a, k, "SiVacuumInterface")
                     \cup LeafBordersWith(a, k, "SiNbInterface")
       /\ LeafBordersWith(a, k, "SiVacuumInterface") # {}
            => Contains(leaf.material, "Vacuum")
       /\ LeafBordersWith(a, k, "SiNbInterface") # {}
            => Contains(leaf.material, "Niobium")
       /\ pc # "aborted" =>
            /\ Contains(leaf.material, "Vacuum")
                 => LeafBordersWith(a, k, "SiVacuumInterface") # {}
            /\ Contains(leaf.material, "Niobium")
                 => LeafBordersWith(a, k, "SiNbInterface") # {}

\* a finished build in which the leaf loops of a transmission line, a flux
\* line, a transmon, a resonator and a chain segment have run
C26_Witness ==
  /\ Completed
  /\ \A n \in { "TransmissionLine", "bottomRightFluxLine", "ResonatorAssembly_4",
                 "Transmon", "Resonator1", "Straight1", "Curve1" } :
       \E a \in Wired : assemblies[a].name = n
  /\ \E a \in Wired :
       /\ assemblies[a].name = "Curve1"
       /\ \E k \in DOMAIN assemblies[a].list :
            LeafBordersWith(a, k, "SiNbInterface") # {}

\* a step of Construct(): its entry, a stage of SetupGeometry, its return
BuildStep == pc # "idle" \/ pc' # "idle"

\* table is the beginning of table'
Extends(table) ==
  /\ Len(table') >= Len(table)
  /\ SubSeq(table', 1, Len(table)) = table

\* the entry of Construct() clears the two tables exactly when the object is
\* constructed already; no step of the first build of an object removes or
\* alters an entry of either table
FirstBuildKeepsEntries ==
  /\ ( pc = "idle" /\ pc' = "DefineMaterials" ) =>
       IF fConstructed[self']
       THEN surfaceTable' = << >> /\ latticeTable' = NoLattices
       ELSE UNCHANGED << physStore, surfaceTable, latticeTable >>
  /\ ( BuildStep /\ ~fConstructed[self'] ) =>
       /\ Extends(surfaceTable)
       /\ latticeTable.logical \subseteq latticeTable'.logical
       /\ latticeTable.physical \subseteq latticeTable'.physical

\* C27: the first build of an object does no teardown: it leaves in the
\* border-surface table and in the lattice table whatever they held when it
\* began; the tables are cleared only by a build of an object whose
\* fConstructed is set.
C27_FirstBuildNoTeardown == [][FirstBuildKeepsEntries]_vars

\* the first build of the second object is under way, or has ended, on
\* tables that still hold what the first object put there
C27_Witness ==
  /\ self = "B" /\ ~fConstructed["B"] /\ fConstructed["A"]
  /\ generation = 2
  /\ pc \in { "QubitHousing", "aborted" }
  /\ Len(surfaceTable) >= 1
  /\ surfaceTable[1].v1.gen = 1
  /\ \E l \in latticeTable.physical : l.vol.gen = 1
  /\ \E l \in latticeTable.physical : l.vol.gen = 2

\* C28: after one completed build or more of a single object the lattice
\* table holds one registration, that of the silicon lattice, oriented
\* (1,0,0), on the chip of the latest generation, and one loaded lattice,
\* that of the chip's material.
C28_OneLatticeRegistration ==
  Completed =>
    /\ latticeTable.physical
         = { [vol |-> phys_siliconChip, lattice |-> "Si",
              miller |-> << 1, 0, 0 >>] }
    /\ phys_siliconChip.name = "SiliconChip"
    /\ phys_siliconChip.gen = generation
    /\ latticeTable.logical
         = { [material |-> fMaterials[self].fSilicon, lattice |-> "Si"] }
    /\ fMaterials[self].fSilicon = "G4_Si"

\* a second build of one object has completed after the run manager emptied
\* the volume stores
C28_Witness ==
  /\ Completed /\ generation = 2 /\ prev.valid /\ prev.inst = last.inst
  /\ fGeometryHasBeenDestroyed
  /\ Cardinality(latticeTable.physical) = 1
  /\ \E l \in latticeTable.physical : l.vol.gen = 2

\* a step changes the surface properties, the sensor among them, or the
\* members that point at them, only as the surface-property step of the
\* first build of an object; no step of a rebuild does
PropertiesOnlyOnFirstBuild ==
  /\ ( surfacePropertyHeap' # surfacePropertyHeap
       \/ fSurfaceProps' # fSurfaceProps ) =>
       /\ pc = "SurfaceProperties" /\ ~fConstructed[self]
       /\ Len(surfacePropertyHeap') = Len(surfacePropertyHeap) + 3
       /\ surfacePropertyHeap'[fSurfaceProps'[self].fSiNbInterface].electrode = 1
  /\ ( BuildStep /\ fConstructed[self'] ) =>
       UNCHANGED << surfacePropertyHeap, fSurfaceProps >>

\* the border surfaces of every generation use the property objects of the
\* first one: the ids the members held then, each id one of the three names
SamePropertyIds ==
  /\ PropertiesDefined =>
       /\ surfacePropertyHeap = lastAttach.after
       /\ fSurfaceProps[self].fSiNbInterface = lastAttach.prop
       /\ \A i \in DOMAIN surfaceTable :
            surfaceTable[i].prop \in { fSurfaceProps[self].fSiNbInterface,
                                       fSurfaceProps[self].fSiCopperInterface,
                                       fSurfaceProps[self].fSiVacuumInterface }
  /\ ( Completed /\ prev.valid /\ last.valid /\ prev.inst = last.inst ) =>
       \A x \in IfaceSet(prev), y \in IfaceSet(last) :
         x.name = y.name => x.prop = y.prop

\* C29: the three surface properties are defined, and the sensor attached,
\* by the first build of an object only; a rebuild, teardown and
\* SetupGeometry alike, leaves the property objects and the sensor as they
\* were, and the border surfaces of a later generation are bound to the same
\* property ids as those of the same name of the first generation.
C29_PropertiesSurviveRebuild ==
  [] SamePropertyIds /\ [][PropertiesOnlyOnFirstBuild]_vars

\* a rebuild of the device with housing and ground plane has completed on the
\* properties of the first build
C29_Witness ==
  /\ Completed /\ generation = 2
  /\ prev.valid /\ last.valid /\ prev.inst = last.inst
  /\ last.cfg.useGroundPlane /\ last.cfg.useQubitHousing
  /\ prev.cfg.useGroundPlane
  /\ surfacePropertyHeap = lastAttach.after
  /\ \E i \in DOMAIN surfaceTable :
       /\ surfaceTable[i].prop = lastAttach.prop
       /\ surfaceTable[i].v1.gen = 2

\* the property carries a sensor: sensor parameters or a phonon electrode
HasSensor(property) == property.sensor # << >> \/ property.electrode # 0

\* C30: in every state the properties that carry a sensor are those named
\* SiNbInterface, which carry all of it; SiVacuumInterface and
\* SiCopperInterface carry none; a border surface is bound to a property
\* with a sensor exactly when it is bound to SiNbInterface.
C30_SensorOnNiobiumOnly ==
  /\ \A k \in DOMAIN surfacePropertyHeap :
       /\ HasSensor(surfacePropertyHeap[k])
            <=> surfacePropertyHeap[k].name = "SiNbInterface"
       /\ HasSensor(surfacePropertyHeap[k]) =>
            /\ surfacePropertyHeap[k].electrode = 1
            /\ Len(surfacePropertyHeap[k].sensor) = Len(SensorProperties)
  /\ \A i \in DOMAIN surfaceTable :
       /\ surfaceTable[i].prop \in DOMAIN surfacePropertyHeap
       /\ HasSensor(surfacePropertyHeap[surfaceTable[i].prop])
            <=> surfacePropertyHeap[surfaceTable[i].prop].name = "SiNbInterface"

\* a finished build with border surfaces of all three properties, that of
\* the ground plane with the sensor, those of world and housing without
C30_Witness ==
  /\ Completed
  /\ \E i \in DOMAIN surfaceTable :
       /\ surfaceTable[i].name = "border_siliconChip_groundPlane"
       /\ HasSensor(surfacePropertyHeap[surfaceTable[i].prop])
  /\ \E i \in DOMAIN surfaceTable :
       /\ surfaceTable[i].name = "border_siliconChip_world"
       /\ ~HasSensor(surfacePropertyHeap[surfaceTable[i].prop])
  /\ \E i \in DOMAIN surfaceTable :
       /\ surfaceTable[i].name = "border_siliconChip_qubitHousing"
       /\ ~HasSensor(surfacePropertyHeap[surfaceTable[i].prop])

====
